---- MODULE Spec2Model ----
(***************************************************************************)
(* Model of src/bin/flopp.rs: the orchestration done by main().            *)
(* main() parses the configuration, loads the fragments, lays the genome   *)
(* out in windows, calibrates the error rate, clusters every window on the *)
(* rayon pool (the results are appended to three mutex-protected vectors), *)
(* sorts the results by window index, repairs, links, polishes and writes. *)
(*                                                                         *)
(* Probabilities (f64) are fixed-point thousandths: 0.03 is 30.            *)
(* Command-line values are sequences of one-character strings.             *)
(***************************************************************************)
EXTENDS Integers, Sequences, FiniteSets, TLC

(***************************************************************************)
(* Bounds of the model.                                                    *)
(***************************************************************************)
\* largest last variant-site index returned by get_length_gn
MaxGn == 2
\* largest window length returned by get_avg_length(.., 0.33)
MaxBlock == 2
\* largest number of pool threads that run window tasks at the same time
MaxWorkers == 2

(***************************************************************************)
(* Program constants.                                                      *)
(***************************************************************************)
\* let overlap = 0;
overlap == 0
\* let mut epsilon = 0.03;
InitialEpsilon == 30
\* epsilon = 0.010;
EpsilonFloor == 10

\* an option that was not given; the Err and Ok(v) of a parse
None == <<"<absent>">>
Err == <<"Err">>
Ok(v) == <<"Ok", v>>

\* the command lines tried: which of -b, -f and -v are given (one of -b and
\* -f at least), and the values of -t, -p and -e
InputArgs == {<<TRUE, FALSE, TRUE>>, <<FALSE, TRUE, FALSE>>, <<FALSE, TRUE, TRUE>>,
              <<TRUE, TRUE, TRUE>>, <<TRUE, FALSE, FALSE>>}
ThreadArgs == {None, <<"x">>, <<"0">>, <<"1">>}
PloidyArgs == {<<"x">>, <<"0">>, <<"1">>, <<"2">>}
EpsilonArgs == {None, <<"x">>, <<"0">>, <<"0", ".", "0", "3">>}
\* the ploidy a VCF file can report
VcfPloidies == {2, 3}
\* results estimate_epsilon can return (thousandths)
EpsilonEstimates == {0, 30}

Min(a, b) == IF a < b THEN a ELSE b

(***************************************************************************)
(* str::parse::<usize>: a non-empty run of decimal digits, after an        *)
(* optional plus sign.                                                     *)
(***************************************************************************)
Digits == {"0", "1", "2", "3", "4", "5", "6", "7", "8", "9"}

DigitValue(c) ==
    CASE c = "0" -> 0 [] c = "1" -> 1 [] c = "2" -> 2 [] c = "3" -> 3
      [] c = "4" -> 4 [] c = "5" -> 5 [] c = "6" -> 6 [] c = "7" -> 7
      [] c = "8" -> 8 [] c = "9" -> 9

RECURSIVE DigitsValue(_, _)
DigitsValue(s, acc) ==
    IF s = <<>> THEN acc
    ELSE DigitsValue(Tail(s), 10 * acc + DigitValue(Head(s)))

parse_usize(s) ==
    LET d == IF s # <<>> /\ Head(s) = "+" THEN Tail(s) ELSE s
    IN IF d # <<>> /\ \A i \in 1..Len(d) : d[i] \in Digits
       THEN Ok(DigitsValue(d, 0))
       ELSE Err

(***************************************************************************)
(* str::parse::<f64> on the forms digits and digits.digits, in thousandths *)
(* (at most three fractional digits are tried).                            *)
(***************************************************************************)
DotAt(s) == IF \E i \in 1..Len(s) : s[i] = "."
            THEN CHOOSE i \in 1..Len(s) : s[i] = "." /\ \A j \in 1..(i - 1) : s[j] # "."
            ELSE 0

Pad3(f) == IF Len(f) = 0 THEN <<"0", "0", "0">>
           ELSE IF Len(f) = 1 THEN f \o <<"0", "0">>
           ELSE IF Len(f) = 2 THEN f \o <<"0">>
           ELSE SubSeq(f, 1, 3)

parse_f64(s) ==
    LET d == DotAt(s)
        ip == IF d = 0 THEN s ELSE SubSeq(s, 1, d - 1)
        fp == IF d = 0 THEN <<>> ELSE SubSeq(s, d + 1, Len(s))
    IN IF /\ Len(ip) + Len(fp) > 0
          /\ \A i \in 1..Len(ip) : ip[i] \in Digits
          /\ \A i \in 1..Len(fp) : fp[i] \in Digits
       THEN Ok(1000 * DigitsValue(ip, 0) + DigitsValue(Pad3(fp), 0))
       ELSE Err

VARIABLES
    pc,            \* position of main()
    panic_msg,     \* message of the panic that ended the run, or ""
    log,           \* the calls main() has made, in order
    num_t,         \* parsed -t
    ploidy,        \* parsed -p
    bam, frag, vcf,
    pool,          \* number of threads of the global rayon pool
    vcf_ploidy,    \* ploidy reported by get_genotypes_from_vcf_hts, 0 before
    length_gn, length_block, num_iters,
    epsilon,
    task,          \* task[x]: position of the closure run for window x
    held,          \* held[m]: the tasks that hold a guard of mutex m
    parts, lengths, scores,        \* contents of the three mutexes
    sorted_scores, sorted_parts,   \* the shadowing scores and parts of lines 278-283
    part_filled, final_part, final_block_polish,
    written        \* the block handed to write_blocks_to_file, <<>> before

cfg == <<num_t, ploidy, bam, frag, vcf, pool, vcf_ploidy>>
lay == <<length_gn, length_block, num_iters>>
par == <<task, held, parts, lengths, scores>>
post == <<sorted_scores, sorted_parts, part_filled, final_part, final_block_polish, written>>

vars == <<pc, panic_msg, log, cfg, lay, epsilon, par, post>>

Mutexes == {"parts", "lengths", "scores"}

Init ==
    /\ pc = "parse_threads"
    /\ panic_msg = ""
    /\ log = <<>>
    /\ num_t = 0
    /\ ploidy = 0
    /\ bam = FALSE /\ frag = FALSE /\ vcf = FALSE
    /\ pool = 0
    /\ vcf_ploidy = 0
    /\ length_gn = 0 /\ length_block = 0 /\ num_iters = 0
    /\ epsilon = 0
    /\ task = <<>>
    /\ held = [m \in Mutexes |-> {}]
    /\ parts = <<>> /\ lengths = <<>> /\ scores = <<>>
    /\ sorted_scores = <<>> /\ sorted_parts = <<>>
    /\ part_filled = <<>> /\ final_part = <<>> /\ final_block_polish = <<>>
    /\ written = <<>>

Panic(msg) ==
    /\ pc' = "aborted"
    /\ panic_msg' = msg

\* let num_t = match num_t_str.parse::<usize>() ...
ParseThreads ==
    /\ pc = "parse_threads"
    /\ \E arg \in ThreadArgs :
         LET num_t_str == IF arg = None THEN <<"1", "0">> ELSE arg
             r == parse_usize(num_t_str)
         IN IF r = Err
            THEN Panic("Number of threads must be positive integer") /\ UNCHANGED num_t
            ELSE pc' = "parse_ploidy" /\ num_t' = r[2] /\ UNCHANGED panic_msg
    /\ UNCHANGED <<log, ploidy, bam, frag, vcf, pool, vcf_ploidy, lay, epsilon, par, post>>

\* let ploidy = match ploidy.parse::<usize>() ...
ParsePloidy ==
    /\ pc = "parse_ploidy"
    /\ \E arg \in PloidyArgs :
         LET r == parse_usize(arg)
         IN IF r = Err
            THEN Panic("Must input valid ploidy") /\ UNCHANGED ploidy
            ELSE pc' = "inputs" /\ ploidy' = r[2] /\ UNCHANGED panic_msg
    /\ UNCHANGED <<log, num_t, bam, frag, vcf, pool, vcf_ploidy, lay, epsilon, par, post>>

\* the bam, frag and vcf flags and the two checks on them
CheckInputs ==
    /\ pc = "inputs"
    /\ \E arg \in InputArgs :
         /\ bam' = arg[1] /\ frag' = arg[2] /\ vcf' = arg[3]
         /\ IF arg[1] /\ arg[2]
            THEN Panic("If using frag as input, BAM file should not be specified")
            ELSE IF arg[1] /\ ~arg[3]
            THEN Panic("Must input VCF file if using BAM file")
            ELSE pc' = "build_pool" /\ UNCHANGED panic_msg
    /\ UNCHANGED <<log, num_t, ploidy, pool, vcf_ploidy, lay, epsilon, par, post>>

\* rayon::ThreadPoolBuilder::new().num_threads(num_t).build_global().unwrap():
\* num_threads(0) lets rayon choose the number of threads itself
BuildPool ==
    /\ pc = "build_pool"
    /\ \E n \in 1..MaxWorkers :
         pool' = IF num_t = 0 THEN n ELSE num_t
    /\ pc' = "read_inputs"
    /\ UNCHANGED <<panic_msg, log, num_t, ploidy, bam, frag, vcf, vcf_ploidy,
                   lay, epsilon, par, post>>

\* all_frags = get_frags_from_bamvcf / get_frags_container; all_frags.sort_by(..)
ReadInputs ==
    /\ pc = "read_inputs"
    /\ log' = log \o << IF bam THEN "get_frags_from_bamvcf" ELSE "get_frags_container",
                        "sort_by_first_position" >>
    /\ pc' = "read_vcf"
    /\ UNCHANGED <<panic_msg, cfg, lay, epsilon, par, post>>

\* variant of ReadVcf: the reported ploidy is not compared
ReadVcf_NoCheck ==
    /\ pc = "read_vcf"
    /\ IF vcf
       THEN \E vp \in VcfPloidies :
              /\ vcf_ploidy' = vp
              /\ log' = Append(log, "get_genotypes_from_vcf_hts")
              /\ pc' = "layout" /\ UNCHANGED panic_msg
       ELSE pc' = "layout" /\ UNCHANGED <<panic_msg, log, vcf_ploidy>>
    /\ UNCHANGED <<num_t, ploidy, bam, frag, vcf, pool, lay, epsilon, par, post>>

\* if vcf { .. get_genotypes_from_vcf_hts .. if vcf_ploidy != ploidy { panic!(..) } }
ReadVcf ==
    /\ pc = "read_vcf"
    /\ IF vcf
       THEN \E vp \in VcfPloidies :
              /\ vcf_ploidy' = vp
              /\ log' = Append(log, "get_genotypes_from_vcf_hts")
              /\ IF vp # ploidy
                 THEN Panic("VCF File ploidy doesn't match input ploidy")
                 ELSE pc' = "layout" /\ UNCHANGED panic_msg
       ELSE pc' = "layout" /\ UNCHANGED <<panic_msg, log, vcf_ploidy>>
    /\ UNCHANGED <<num_t, ploidy, bam, frag, vcf, pool, lay, epsilon, par, post>>

\* length_block, length_gn, let mut epsilon = 0.03, num_iters
Layout ==
    /\ pc = "layout"
    /\ \E gn \in 1..MaxGn, lb \in 1..MaxBlock :
         /\ length_block' = lb
         /\ length_gn' = gn
         /\ num_iters' = gn \div lb
    /\ epsilon' = InitialEpsilon
    /\ pc' = "estimate"
    /\ UNCHANGED <<panic_msg, log, cfg, par, post>>

\* if estimate_epsilon { epsilon = local_clustering::estimate_epsilon(..) }
EstimateEpsilon ==
    /\ pc = "estimate"
    /\ \E e \in EpsilonEstimates : epsilon' = e
    /\ log' = Append(log, "estimate_epsilon")
    /\ pc' = "floor"
    /\ UNCHANGED <<panic_msg, cfg, lay, par, post>>

\* if epsilon == 0.0 { epsilon = 0.010; }
FloorEpsilon ==
    /\ pc = "floor"
    /\ epsilon' = IF epsilon = 0 THEN EpsilonFloor ELSE epsilon
    /\ pc' = "override"
    /\ UNCHANGED <<panic_msg, log, cfg, lay, par, post>>

\* match matches.value_of("epsilon") { .. epsilon = value.parse::<f64>().unwrap() }
OverrideEpsilon ==
    /\ pc = "override"
    /\ \E arg \in EpsilonArgs :
         IF arg = None
         THEN pc' = "start" /\ UNCHANGED <<panic_msg, epsilon>>
         ELSE LET r == parse_f64(arg)
              IN IF r = Err
                 THEN Panic("called unwrap on an Err value") /\ UNCHANGED epsilon
                 ELSE pc' = "start" /\ epsilon' = r[2] /\ UNCHANGED panic_msg
    /\ UNCHANGED <<log, cfg, lay, par, post>>

(***************************************************************************)
(* The parallel phase: (0..num_iters).into_par_iter().for_each(|x| ..).    *)
(* One task per window; at most pool tasks (and at most MaxWorkers) run at *)
(* the same time, in any order.                                            *)
(***************************************************************************)
Windows == 0..(num_iters - 1)

Running == {x \in DOMAIN task : task[x] \notin {"pending", "done", "panicked"}}

Panicked == {x \in DOMAIN task : task[x] = "panicked"}

\* let block_start = x * length_block + 1;
block_start(x) == x * length_block + 1

\* the window handed to generate_hap_block: [block_start, block_start + length_block + overlap)
window(x) == block_start(x) .. (block_start(x) + length_block + overlap - 1)

\* the partition of the window [b, e) under ploidy p and error rate eps
generate_hap_block(b, e, p, eps) == <<"part", b, e, p, eps>>

\* (best_score, best_part) of a partition: the score is a value of the window
optimize_clustering(part, eps) == << (3 * part[2] + 2) % 7, <<"best", part>> >>

best(x) == optimize_clustering(
               generate_hap_block(block_start(x), block_start(x) + length_block + overlap,
                                  ploidy, epsilon),
               epsilon)

StartParallel ==
    /\ pc = "start"
    /\ task' = [x \in Windows |-> "pending"]
    /\ log' = Append(log, "for_each")
    /\ pc' = "par"
    /\ UNCHANGED <<panic_msg, cfg, lay, epsilon, held, parts, lengths, scores, post>>

\* a pool thread picks up the closure for window x
TakeTask(x) ==
    /\ pc = "par"
    /\ task[x] = "pending"
    /\ Cardinality(Running) < Min(pool, MaxWorkers)
    /\ task' = [task EXCEPT ![x] = "generate"]
    /\ UNCHANGED <<pc, panic_msg, log, cfg, lay, epsilon, held, parts, lengths, scores, post>>

\* let part = local_clustering::generate_hap_block(..)
GenerateHapBlock(x) ==
    /\ task[x] = "generate"
    /\ task' = [task EXCEPT ![x] = "optimize"]
    /\ UNCHANGED <<pc, panic_msg, log, cfg, lay, epsilon, held, parts, lengths, scores, post>>

\* let (best_score, best_part, _best_block) = local_clustering::optimize_clustering(..)
OptimizeClustering(x) ==
    /\ task[x] = "optimize"
    /\ task' = [task EXCEPT ![x] = "lock1"]
    /\ UNCHANGED <<pc, panic_msg, log, cfg, lay, epsilon, held, parts, lengths, scores, post>>

\* one of the two clustering calls panics
TaskPanic(x) ==
    /\ task[x] \in {"generate", "optimize"}
    /\ task' = [task EXCEPT ![x] = "panicked"]
    /\ UNCHANGED <<pc, panic_msg, log, cfg, lay, epsilon, held, parts, lengths, scores, post>>

\* variant of lock_order: the closure of odd windows locks in reverse
lock_order_by_parity(x) ==
    IF x % 2 = 1 THEN <<"scores", "lengths", "parts">> ELSE <<"parts", "lengths", "scores">>

\* the order of the three lock() statements of the closure
lock_order(x) == <<"parts", "lengths", "scores">>

LockIndex(p) == CASE p = "lock1" -> 1 [] p = "lock2" -> 2 [] p = "lock3" -> 3

AfterLock(p) == CASE p = "lock1" -> "lock2" [] p = "lock2" -> "lock3"
                  [] p = "lock3" -> "push_parts"

\* variant of Acquire: the guard is handed out without waiting
Acquire_NoWait(x, m) ==
    held' = [held EXCEPT ![m] = @ \cup {x}]

\* Mutex::lock(): blocks until no other guard of m exists
Acquire(x, m) ==
    /\ held[m] = {}
    /\ held' = [held EXCEPT ![m] = {x}]

\* let mut locked_parts = parts.lock().unwrap(); and the two that follow
Lock(x) ==
    /\ task[x] \in {"lock1", "lock2", "lock3"}
    /\ Acquire(x, lock_order(x)[LockIndex(task[x])])
    /\ task' = [task EXCEPT ![x] = AfterLock(task[x])]
    /\ UNCHANGED <<pc, panic_msg, log, cfg, lay, epsilon, parts, lengths, scores, post>>

\* locked_parts.push((best_part, x));
PushParts(x) ==
    /\ task[x] = "push_parts"
    /\ parts' = Append(parts, <<best(x)[2], x>>)
    /\ task' = [task EXCEPT ![x] = "push_lengths"]
    /\ UNCHANGED <<pc, panic_msg, log, cfg, lay, epsilon, held, lengths, scores, post>>

\* locked_lengths.push(length_block);
PushLengths(x) ==
    /\ task[x] = "push_lengths"
    /\ lengths' = Append(lengths, length_block)
    /\ task' = [task EXCEPT ![x] = "push_scores"]
    /\ UNCHANGED <<pc, panic_msg, log, cfg, lay, epsilon, held, parts, scores, post>>

\* locked_scores.push((best_score, x));
PushScores(x) ==
    /\ task[x] = "push_scores"
    /\ scores' = Append(scores, <<best(x)[1], x>>)
    /\ task' = [task EXCEPT ![x] = "end"]
    /\ UNCHANGED <<pc, panic_msg, log, cfg, lay, epsilon, held, parts, lengths, post>>

\* variant of EndTask: the guard of parts outlives the closure
EndTask_KeepGuard(x) ==
    /\ task[x] = "end"
    /\ held' = [m \in Mutexes |-> IF m = "parts" THEN held[m] ELSE held[m] \ {x}]
    /\ task' = [task EXCEPT ![x] = "done"]
    /\ UNCHANGED <<pc, panic_msg, log, cfg, lay, epsilon, parts, lengths, scores, post>>

\* the closure returns: the three guards are dropped
EndTask(x) ==
    /\ task[x] = "end"
    /\ held' = [m \in Mutexes |-> held[m] \ {x}]
    /\ task' = [task EXCEPT ![x] = "done"]
    /\ UNCHANGED <<pc, panic_msg, log, cfg, lay, epsilon, parts, lengths, scores, post>>

\* variant of Join: the panic of a task is swallowed
Join_IgnorePanic ==
    /\ pc = "par"
    /\ Running = {}
    /\ \A x \in DOMAIN task : task[x] \in {"done", "panicked"}
    /\ pc' = "sort"
    /\ UNCHANGED <<panic_msg, log, cfg, lay, epsilon, par, post>>

\* for_each returns once no task runs and none is left, or resumes the panic
\* of a task in main once no task runs
Join ==
    /\ pc = "par"
    /\ Running = {}
    /\ IF Panicked # {}
       THEN Panic("window task panicked")
       ELSE /\ \A x \in DOMAIN task : task[x] = "done"
            /\ pc' = "sort"
            /\ UNCHANGED panic_msg
    /\ UNCHANGED <<log, cfg, lay, epsilon, par, post>>

(***************************************************************************)
(* slice::sort_by on the window index (.1), a stable sort.                 *)
(***************************************************************************)
\* variant of insert_by_index: the comparison is reversed (b.1.cmp(&a.1))
RECURSIVE insert_by_index_reversed(_, _)
insert_by_index_reversed(s, e) ==
    IF s = <<>> THEN <<e>>
    ELSE IF e[2] > Head(s)[2] THEN <<e>> \o s
    ELSE <<Head(s)>> \o insert_by_index_reversed(Tail(s), e)

RECURSIVE insert_by_index(_, _)
insert_by_index(s, e) ==
    IF s = <<>> THEN <<e>>
    ELSE IF e[2] < Head(s)[2] THEN <<e>> \o s
    ELSE <<Head(s)>> \o insert_by_index(Tail(s), e)

RECURSIVE sort_by_index(_)
sort_by_index(s) ==
    IF s = <<>> THEN <<>>
    ELSE insert_by_index(sort_by_index(SubSeq(s, 1, Len(s) - 1)), s[Len(s)])

\* .into_iter().map(|x| x.0).collect()
map_first(s) == [i \in 1..Len(s) |-> s[i][1]]

\* lines 277-283: the results are sorted by window index and the index dropped
SortResults ==
    /\ pc = "sort"
    /\ held["scores"] = {} /\ held["parts"] = {}
    /\ sorted_scores' = map_first(sort_by_index(scores))
    /\ sorted_parts' = map_first(sort_by_index(parts))
    /\ log' = Append(log, "sort_by_window_index")
    /\ pc' = "fill"
    /\ UNCHANGED <<panic_msg, cfg, lay, epsilon, par,
                   part_filled, final_part, final_block_polish, written>>

\* part_filled = vcf_polishing::replace_with_filled_blocks(&scores, parts, ..)
FillBlocks ==
    /\ pc = "fill"
    /\ part_filled' = <<"filled", sorted_scores, sorted_parts, epsilon>>
    /\ log' = Append(log, "replace_with_filled_blocks")
    /\ pc' = "link"
    /\ UNCHANGED <<panic_msg, cfg, lay, epsilon, par,
                   sorted_scores, sorted_parts, final_part, final_block_polish, written>>

\* let final_part = vcf_polishing::link_blocks_greedy(&part_filled);
LinkBlocks ==
    /\ pc = "link"
    /\ final_part' = <<"linked", part_filled>>
    /\ log' = Append(log, "link_blocks_greedy")
    /\ pc' = "polish"
    /\ UNCHANGED <<panic_msg, cfg, lay, epsilon, par,
                   sorted_scores, sorted_parts, part_filled, final_block_polish, written>>

\* let final_block_unpolish = utils_frags::hap_block_from_partition(&final_part);
final_block_unpolish == <<"hap_block", final_part>>

\* if polish { final_block_polish = vcf_polishing::polish_using_vcf(..) }
Polish ==
    /\ pc = "polish"
    /\ IF vcf
       THEN /\ final_block_polish' = <<"polished", final_block_unpolish>>
            /\ log' = Append(log, "polish_using_vcf")
       ELSE UNCHANGED <<final_block_polish, log>>
    /\ pc' = "write"
    /\ UNCHANGED <<panic_msg, cfg, lay, epsilon, par,
                   sorted_scores, sorted_parts, part_filled, final_part, written>>

\* variant of WriteBlocks: the unpolished block is written in both branches
WriteBlocks_Unpolished ==
    /\ pc = "write"
    /\ written' = final_block_unpolish
    /\ log' = Append(log, "write_blocks_to_file")
    /\ pc' = "done"
    /\ UNCHANGED <<panic_msg, cfg, lay, epsilon, par,
                   sorted_scores, sorted_parts, part_filled, final_part, final_block_polish>>

\* if polish { write_blocks_to_file(.., final_block_polish, ..) } else { .. unpolish .. }
WriteBlocks ==
    /\ pc = "write"
    /\ written' = IF vcf THEN final_block_polish ELSE final_block_unpolish
    /\ log' = Append(log, "write_blocks_to_file")
    /\ pc' = "done"
    /\ UNCHANGED <<panic_msg, cfg, lay, epsilon, par,
                   sorted_scores, sorted_parts, part_filled, final_part, final_block_polish>>

Next ==
    \/ ParseThreads
    \/ ParsePloidy
    \/ CheckInputs
    \/ BuildPool
    \/ ReadInputs
    \/ ReadVcf
    \/ Layout
    \/ EstimateEpsilon
    \/ FloorEpsilon
    \/ OverrideEpsilon
    \/ StartParallel
    \/ \E x \in DOMAIN task : TakeTask(x)
    \/ \E x \in DOMAIN task : GenerateHapBlock(x)
    \/ \E x \in DOMAIN task : OptimizeClustering(x)
    \/ \E x \in DOMAIN task : TaskPanic(x)
    \/ \E x \in DOMAIN task : Lock(x)
    \/ \E x \in DOMAIN task : PushParts(x)
    \/ \E x \in DOMAIN task : PushLengths(x)
    \/ \E x \in DOMAIN task : PushScores(x)
    \/ \E x \in DOMAIN task : EndTask(x)
    \/ Join
    \/ SortResults
    \/ FillBlocks
    \/ LinkBlocks
    \/ Polish
    \/ WriteBlocks

Spec == Init /\ [][Next]_vars

\* some runnable thread is eventually run
LiveSpec == Spec /\ WF_vars(Next)

(***************************************************************************)
(* Properties.                                                             *)
(***************************************************************************)
Called(f) == \E i \in 1..Len(log) : log[i] = f

TimesCalled(f) == Cardinality({i \in 1..Len(log) : log[i] = f})

Clustering == {x \in DOMAIN task : task[x] \in {"generate", "optimize"}}

Started == {x \in DOMAIN task : task[x] # "pending"}

AfterSort == pc \in {"fill", "link", "polish", "write", "done"}

MismatchMsg == "VCF File ploidy doesn't match input ploidy"

\* C1: after the sort, whatever the order in which the window tasks appended,
\* sorted_parts[i] and sorted_scores[i] are the partition and the score that
\* the task of window i produced, for every window 0..num_iters-1, one entry
\* per window.
C1_SortedByWindowIndex ==
    AfterSort =>
        /\ Len(sorted_parts) = num_iters
        /\ Len(sorted_scores) = num_iters
        /\ \A i \in Windows : /\ sorted_parts[i + 1] = best(i)[2]
                              /\ sorted_scores[i + 1] = best(i)[1]

\* the results of two windows were appended out of window order and sorted
C1_Witness ==
    /\ pc = "fill"
    /\ num_iters = 2
    /\ parts[1][2] > parts[2][2]

\* C2: the error rate handed to generate_hap_block, optimize_clustering and
\* replace_with_filled_blocks is strictly positive on every path, the -e
\* override included.
C2_EpsilonPositive ==
    (Clustering # {} \/ pc = "fill") => epsilon > 0

\* C3: every variant site 1..length_gn lies in the window of some task
\* 0..num_iters-1.
C3_WindowsCoverGenome ==
    \A site \in 1..length_gn : \E x \in Windows : site \in window(x)

\* C4: with a thread count that is not a positive integer or a ploidy that is
\* not an integer >= 2, no input is read, no window task is created and
\* nothing is written.
C4_BadConfigIsFatal ==
    LET threads_seen == pc # "parse_threads"
        ploidy_seen == pc \notin {"parse_threads", "parse_ploidy"}
    IN ((threads_seen /\ num_t < 1) \/ (ploidy_seen /\ ploidy < 2)) =>
           (log = <<>> /\ task = <<>> /\ written = <<>>)

\* C5: once the VCF has reported a ploidy that differs from the configured
\* one the run is aborted with no call to estimate_epsilon, no window task,
\* no repair, linking, polishing or writing; without a VCF no ploidy is read
\* and the run never aborts on the ploidy check.
C5_PloidyMismatchAborts ==
    /\ (vcf_ploidy # 0 /\ vcf_ploidy # ploidy) =>
          /\ pc = "aborted"
          /\ panic_msg = MismatchMsg
          /\ ~Called("estimate_epsilon")
          /\ task = <<>>
          /\ ~Called("for_each")
          /\ ~Called("link_blocks_greedy")
          /\ ~Called("polish_using_vcf")
          /\ ~Called("write_blocks_to_file")
          /\ written = <<>>
    /\ ~vcf => (vcf_ploidy = 0 /\ panic_msg # MismatchMsg)

\* a run with a VCF of another ploidy was aborted
C5_Witness ==
    /\ vcf
    /\ vcf_ploidy = 3
    /\ ploidy = 2
    /\ pc = "aborted"

\* C6: once a window task has panicked, repair, linking, polishing and
\* writing never run; whatever is written was built from num_iters results.
C6_TaskFailureIsFatal ==
    /\ Panicked # {} =>
          /\ pc \in {"par", "aborted"}
          /\ ~Called("sort_by_window_index")
          /\ ~Called("replace_with_filled_blocks")
          /\ ~Called("link_blocks_greedy")
          /\ ~Called("polish_using_vcf")
          /\ ~Called("write_blocks_to_file")
          /\ written = <<>>
    /\ written # <<>> => (Len(sorted_parts) = num_iters /\ Len(sorted_scores) = num_iters)

\* one task panicked, another appended its result, and the run was aborted
C6_Witness ==
    /\ pc = "aborted"
    /\ Panicked # {}
    /\ Len(parts) >= 1

ExpectedLog ==
    << IF bam THEN "get_frags_from_bamvcf" ELSE "get_frags_container",
       "sort_by_first_position" >>
    \o (IF vcf THEN <<"get_genotypes_from_vcf_hts">> ELSE <<>>)
    \o << "estimate_epsilon", "for_each", "sort_by_window_index",
          "replace_with_filled_blocks", "link_blocks_greedy" >>
    \o (IF vcf THEN <<"polish_using_vcf">> ELSE <<>>)
    \o << "write_blocks_to_file" >>

\* C7: a finished run made exactly the calls load, sort, (VCF), estimate,
\* parallel phase, sort by index, repair, link, (polish iff VCF), write, in
\* this order and once each; a window task only starts after the one call of
\* estimate_epsilon; repair starts after every task has appended; linking
\* takes the repaired partitions; the block written is the polished one iff
\* a VCF was given.
C7_StageOrder ==
    /\ pc = "done" => log = ExpectedLog
    /\ Started # {} => (TimesCalled("estimate_epsilon") = 1 /\ Called("for_each"))
    /\ Called("replace_with_filled_blocks") =>
          /\ \A x \in Windows : task[x] = "done"
          /\ Len(parts) = num_iters /\ Len(scores) = num_iters
          /\ part_filled = <<"filled", sorted_scores, sorted_parts, epsilon>>
    /\ Called("link_blocks_greedy") => final_part = <<"linked", part_filled>>
    /\ Called("polish_using_vcf") => (vcf /\ Called("link_blocks_greedy"))
    /\ pc = "done" =>
          written = IF vcf THEN <<"polished", <<"hap_block", final_part>> >>
                           ELSE <<"hap_block", final_part>>

\* a run with a VCF and two windows finished
C7_Witness ==
    /\ pc = "done"
    /\ vcf
    /\ num_iters = 2

InCriticalSection == {x \in DOMAIN task :
                        task[x] \in {"push_parts", "push_lengths", "push_scores", "end"}}

\* C8: a task that has not reached its lock statements (pending, in
\* generate_hap_block or in optimize_clustering) or has ended holds no guard
\* of parts, lengths or scores; a task that pushes holds all three.
C8_ClusteringOutsideLocks ==
    \A x \in DOMAIN task :
        /\ task[x] \in {"pending", "generate", "optimize", "done", "panicked"} =>
              \A m \in Mutexes : x \notin held[m]
        /\ x \in InCriticalSection => \A m \in Mutexes : held[m] = {x}

\* one task clusters while another is pushing under the locks
C8_Witness ==
    \E x, y \in DOMAIN task :
        /\ task[x] = "optimize"
        /\ task[y] = "push_lengths"

\* C9: the guards are taken in the order parts, lengths, scores by every
\* task, and under fair scheduling the parallel phase always ends: for_each
\* either returns with the results of all num_iters tasks appended or
\* resumes the panic of a task.
C9_ParallelPhaseTerminates ==
    /\ [](\A x \in DOMAIN task : /\ x \in held["lengths"] => x \in held["parts"]
                                /\ x \in held["scores"] => x \in held["lengths"])
    /\ (pc = "par") ~>
          \/ /\ pc = "sort"
             /\ Len(parts) = num_iters /\ Len(lengths) = num_iters /\ Len(scores) = num_iters
          \/ pc = "aborted" /\ Panicked # {}

\* a task waits for the parts mutex that another task holds
C9_Witness ==
    \E x, y \in DOMAIN task :
        /\ task[x] = "lock1"
        /\ held["parts"] = {y}
        /\ x # y

\* C10: whenever no task holds a guard the three vectors have the same
\* length and parts[k] and scores[k] carry the same window index; when
\* for_each has returned each vector has num_iters entries.
C10_ResultsAligned ==
    /\ (\A m \in Mutexes : held[m] = {}) =>
          /\ Len(parts) = Len(lengths)
          /\ Len(lengths) = Len(scores)
          /\ \A k \in 1..Len(parts) : parts[k][2] = scores[k][2]
    /\ pc = "sort" =>
          (Len(parts) = num_iters /\ Len(lengths) = num_iters /\ Len(scores) = num_iters)

\* for_each has returned with results that were appended out of window order
C10_Witness ==
    /\ pc = "sort"
    /\ num_iters >= 2
    /\ parts[1][2] # 0

====
